---- MODULE Spec2Model ----
(***************************************************************************)
(* Model of the ffmpeg command bot (src/src/main.py): the conversation     *)
(* state machine registered in main(), its callbacks, the command          *)
(* assembler parse_ffmpeg_command and the cleanup delete_temp_files.       *)
(*                                                                         *)
(* Strings are sequences of one-character strings, so that split,          *)
(* replace, startswith, "in" and path concatenation are computed as the    *)
(* code computes them.  Python's None and the empty-list default [] are    *)
(* the sentinels NONE and EMPTY_LIST (multi-character elements, which no   *)
(* text can contain).                                                      *)
(***************************************************************************)
EXTENDS Integers, Sequences, FiniteSets, TLC

----------------------------------------------------------------------------
(* Bounds of the model *)

\* uploads are accepted while the file list is shorter than this
MaxFiles == 2
\* a cleanup (which appends to the file list) runs while the list is shorter
MaxList == MaxFiles + 1
\* pre-fragment / post-fragment / input list lengths drawn for the assembler
MaxPre == 1
MaxPost == 2
MaxInputs == 2

----------------------------------------------------------------------------
(* Values *)

NONE == <<"None">>
EMPTY_LIST == <<"[]">>
\* a fragment list that is None (user_data value None under a list-valued key)
NONE_LIST == <<NONE>>

\* './temp_download_path/'
TEMP_DOWNLOAD_PATH ==
    <<".", "/", "t", "e", "m", "p", "_", "d", "o", "w", "n", "l", "o", "a", "d",
      "_", "p", "a", "t", "h", "/">>

MEDIAGROUP_FILE_NAMES_KEY == "mediagroup_file_names"
PRE_INPUT_PARTS_KEY == "pre_input"
POST_INPUT_PARTS_KEY == "post_input"
COMMAND_KEY == "command"
OUTPUT_PATH_KEY == "output_path"

DOCUMENT_SENDING == "DOCUMENT_SENDING"
COMMAND_WAITING == "COMMAND_WAITING"
PRE_INPUT_STATE == "PRE_INPUT_STATE"
POST_INPUT_STATE == "POST_INPUT_STATE"
\* ConversationHandler.END: no conversation is open for the user
END == "END"

\* 50 MB in bytes: os.path.getsize(f) / (1024 * 1024) > 50
RelayLimitBytes == 52428800

----------------------------------------------------------------------------
(* Python string and list primitives *)

\* part.replace('"', '')
\* the fragment kept as typed
strip_nothing(part) == part

strip_quotes(part) == SelectSeq(part, LAMBDA c : c # "\"")

\* s.startswith(c)
startswith(s, c) == Len(s) > 0 /\ s[1] = c

\* c in s
contains(s, c) == \E i \in DOMAIN s : s[i] = c

RECURSIVE split_on_acc(_, _, _, _)
split_on_acc(text, sep, cur, acc) ==
    IF text = <<>> THEN Append(acc, cur)
    ELSE IF Head(text) = sep
         THEN split_on_acc(Tail(text), sep, <<>>, Append(acc, cur))
         ELSE split_on_acc(Tail(text), sep, Append(cur, Head(text)), acc)

\* s.split(sep): every separator cuts, empty pieces are kept
split_on(text, sep) == split_on_acc(text, sep, <<>>, <<>>)

\* s.split(): cuts on runs of whitespace, empty pieces are dropped
split(text) == SelectSeq(split_on(text, " "), LAMBDA p : p # <<>>)

RECURSIVE map_strip(_)
map_strip(parts) ==
    IF parts = <<>> THEN <<>>
    ELSE <<strip_quotes(Head(parts))>> \o map_strip(Tail(parts))

RECURSIVE input_args(_)
input_args(names) ==
    IF names = <<>> THEN <<>>
    ELSE <<<<"-", "i">>, strip_quotes(Head(names))>> \o input_args(Tail(names))

\* the rewrite of the last argument guarded by the output-file test
output_inference_no_option_test(cmd) ==
    LET last == cmd[Len(cmd)] IN
    IF last # <<>> /\ contains(last, ".")
    THEN [cmd |-> [cmd EXCEPT ![Len(cmd)] = TEMP_DOWNLOAD_PATH \o last],
          out |-> TEMP_DOWNLOAD_PATH \o last]
    ELSE [cmd |-> cmd, out |-> NONE]

output_inference(cmd) ==
    LET last == cmd[Len(cmd)] IN
    IF last # <<>> /\ ~startswith(last, "-") /\ contains(last, ".")
    THEN [cmd |-> [cmd EXCEPT ![Len(cmd)] = TEMP_DOWNLOAD_PATH \o last],
          out |-> TEMP_DOWNLOAD_PATH \o last]
    ELSE [cmd |-> cmd, out |-> NONE]

\* the argument list before the output rewrite, inputs placed without their marker
build_command_no_marker(pre_input_parts, post_input_parts, input_file_names) ==
    <<<<"f", "f", "m", "p", "e", "g">>>>
        \o map_strip(pre_input_parts)
        \o map_strip(input_file_names)
        \o map_strip(post_input_parts)

build_command(pre_input_parts, post_input_parts, input_file_names) ==
    <<<<"f", "f", "m", "p", "e", "g">>>>
        \o map_strip(pre_input_parts)
        \o input_args(input_file_names)
        \o map_strip(post_input_parts)

\* the exception parse_ffmpeg_command raises, "" when it returns:
\* iterating None is a TypeError, None.replace / [].replace an AttributeError
parse_error(pre_input_parts, post_input_parts, input_file_names) ==
    IF pre_input_parts = NONE_LIST THEN "TypeError"
    ELSE IF \E i \in DOMAIN input_file_names :
                input_file_names[i] \in {NONE, EMPTY_LIST} THEN "AttributeError"
    ELSE IF post_input_parts = NONE_LIST THEN "TypeError"
    ELSE ""

\* parse_ffmpeg_command, where it returns: (effective_command_parts, output_file)
parse_ffmpeg_command(pre_input_parts, post_input_parts, input_file_names) ==
    output_inference(build_command(pre_input_parts, post_input_parts, input_file_names))

----------------------------------------------------------------------------
(* Updates: what a user can send *)

T_init == <<"/", "i", "n", "i", "t">>
T_stop == <<"/", "s", "t", "o", "p">>
T_pre == <<"/", "p", "r", "e">>
T_post == <<"/", "p", "o", "s", "t">>
T_reset == <<"/", "r", "e", "s", "e", "t">>
T_process == <<"/", "p", "r", "o", "c", "e", "s", "s">>
\* fragment texts: "-y", "-an ../o.mp4", "a.jpg"
T_opt == <<"-", "y">>
T_up == <<"-", "a", "n", " ", ".", ".", "/", "o", ".", "m", "p", "4">>
T_same == <<"a", ".", "j", "p", "g">>

NoAttachment ==
    [kind |-> "none", file_name |-> <<>>, file_unique_id |-> <<>>,
     mime_type |-> <<>>, file_size |-> 0]

Document(name, size) ==
    [kind |-> "document", file_name |-> name, file_unique_id |-> <<"Q">>,
     mime_type |-> <<"i", "m", "a", "g", "e", "/", "j", "p", "e", "g">>, file_size |-> size]
Video(uid, size) ==
    [kind |-> "video", file_name |-> <<>>, file_unique_id |-> uid,
     mime_type |-> <<"v", "i", "d", "e", "o", "/", "m", "p", "4">>, file_size |-> size]
Photo(uid, size) ==
    [kind |-> "photo", file_name |-> <<>>, file_unique_id |-> uid,
     mime_type |-> <<>>, file_size |-> size]

TextUpdate(t) == [text |-> t, att |-> NoAttachment]
MediaUpdate(a) == [text |-> NONE, att |-> a]

\* sizes ffmpeg may leave in its output file
OutputSizes == {0, 1000, RelayLimitBytes, RelayLimitBytes + 1}

Texts == {T_init, T_stop, T_pre, T_post, T_reset, T_process, T_opt, T_up}
\* an empty document, a document named ../a.jpg, a video
Attachments ==
    {Document(<<"a", ".", "j", "p", "g">>, 0),
     Document(<<".", ".", "/", "a", ".", "j", "p", "g">>, 1000),
     Video(<<"V">>, 1000)}
Updates == {TextUpdate(t) : t \in Texts} \cup {MediaUpdate(a) : a \in Attachments}

\* the reduced traffic of the two-user specification
TextsMulti == {T_init, T_post, T_process, T_stop, T_same}
UpdatesMulti ==
    {TextUpdate(t) : t \in TextsMulti}
        \cup {MediaUpdate(Document(<<"a", ".", "j", "p", "g">>, 1000)),
              MediaUpdate(Photo(<<"P">>, 1000))}

Sessions == {"u1", "u2"}

----------------------------------------------------------------------------
(* Handler registration: main() *)

CommandHandler(name, callback) == [kind |-> "command", arg |-> name, callback |-> callback]
MessageHandler(flt, callback) == [kind |-> flt, arg |-> <<>>, callback |-> callback]

\* the media filter of document_sending_callback
MEDIA == "Document.IMAGE|Document.VIDEO|PHOTO|VIDEO"

is_command(text) == text # NONE /\ Len(text) > 1 /\ startswith(text, "/")

\* the command a CommandHandler reads: first word, without '/' and '@bot'
command_of(text) == Head(split_on(Tail(Head(split(text))), "@"))

matches(h, update) ==
    CASE h.kind = "command" ->
            is_command(update.text) /\ command_of(update.text) = h.arg
      [] h.kind = "TEXT" -> update.text # NONE /\ update.text # <<>>
      [] h.kind = "TEXT&~COMMAND" ->
            update.text # NONE /\ update.text # <<>> /\ ~is_command(update.text)
      [] h.kind = MEDIA -> update.att.kind \in {"document", "video", "photo"}

entry_points == <<CommandHandler(<<"i", "n", "i", "t">>, "init_callback")>>

states(st) ==
    CASE st = DOCUMENT_SENDING ->
            <<MessageHandler(MEDIA, "document_sending_callback"),
              CommandHandler(<<"s", "t", "o", "p">>, "stop_callback")>>
      [] st = COMMAND_WAITING ->
            <<MessageHandler(MEDIA, "document_sending_callback"),
              CommandHandler(<<"p", "r", "e">>, "command_waiting_callback"),
              CommandHandler(<<"p", "o", "s", "t">>, "command_waiting_callback"),
              CommandHandler(<<"r", "e", "s", "e", "t">>, "command_waiting_callback"),
              CommandHandler(<<"s", "t", "o", "p">>, "stop_callback")>>
      [] st = PRE_INPUT_STATE ->
            <<MessageHandler("TEXT", "pre_input_command_callback"),
              CommandHandler(<<"s", "t", "o", "p">>, "stop_callback")>>
      [] st = POST_INPUT_STATE ->
            <<MessageHandler("TEXT&~COMMAND", "post_input_command_callback"),
              CommandHandler(<<"s", "t", "o", "p">>, "stop_callback"),
              CommandHandler(<<"r", "e", "s", "e", "t">>, "command_waiting_callback"),
              CommandHandler(<<"p", "r", "o", "c", "e", "s", "s">>,
                             "command_processing_callback")>>

fallbacks == <<CommandHandler(<<"s", "t", "o", "p">>, "stop_callback")>>

\* the callback of the first handler of the list that accepts the update
first_match(handlers, update) ==
    IF \E i \in DOMAIN handlers : matches(handlers[i], update)
    THEN handlers[CHOOSE i \in DOMAIN handlers :
                     /\ matches(handlers[i], update)
                     /\ \A j \in 1..(i - 1) : ~matches(handlers[j], update)].callback
    ELSE "none"

\* the conversation handler: entry points when no conversation is open,
\* otherwise the handlers of the state, then the fallbacks
ffmpeg_command_conv_handler(st, update) ==
    IF st = END THEN first_match(entry_points, update)
    ELSE first_match(states(st) \o fallbacks, update)

\* the application: /start, then the conversation, then the catch-all for text
dispatch(st, update) ==
    IF matches(CommandHandler(<<"s", "t", "a", "r", "t">>, "start_callback"), update)
    THEN "start_callback"
    ELSE IF ffmpeg_command_conv_handler(st, update) # "none"
         THEN ffmpeg_command_conv_handler(st, update)
    ELSE IF matches(MessageHandler("TEXT", "other_messages_handler"), update)
         THEN "other_messages_handler"
    ELSE "none"

ConversationStates ==
    {END, DOCUMENT_SENDING, COMMAND_WAITING, PRE_INPUT_STATE, POST_INPUT_STATE}

\* dispatch, tabulated over the states and the updates drawn
routing ==
    [st \in ConversationStates, update \in Updates \cup UpdatesMulti |->
        dispatch(st, update)]

----------------------------------------------------------------------------
(* State *)

VARIABLES
    state,      \* per user: the state of the conversation
    user_data,  \* per user: context.user_data, a dict
    disk,       \* the files that exist: resolved path -> size in bytes
    process,    \* the ffmpeg subprocess command_processing_callback awaits
    queued,     \* per user: a /stop arrived while ffmpeg ran and waits its turn
    last,       \* the update handled last: whose, which callback, its outcome
    asm         \* arguments and result of a direct call of parse_ffmpeg_command

vars == <<state, user_data, disk, process, queued, last, asm>>

\* dict primitives
EmptyDict == [k \in {} |-> <<>>]
has(d, k) == k \in DOMAIN d
get(d, k, default) == IF has(d, k) THEN d[k] ELSE default
put(d, k, v) == [x \in (DOMAIN d) \cup {k} |-> IF x = k THEN v ELSE d[x]]
setdefault(d, k, v) == IF has(d, k) THEN d ELSE put(d, k, v)
remove(d, k) == [x \in (DOMAIN d) \ {k} |-> d[x]]

RECURSIVE normalize(_, _)
normalize(components, stack) ==
    IF components = <<>> THEN stack
    ELSE LET c == Head(components) IN
         IF c = <<>> \/ c = <<".">> THEN normalize(Tail(components), stack)
         ELSE IF c = <<".", ".">>
              THEN normalize(Tail(components),
                             IF stack # <<>> /\ stack[Len(stack)] # <<".", ".">>
                             THEN SubSeq(stack, 1, Len(stack) - 1)
                             ELSE Append(stack, c))
         ELSE normalize(Tail(components), Append(stack, c))

\* the file a relative path names: its components from the working directory
resolve(path) == normalize(split_on(path, "/"), <<>>)

NoProcess == [on |-> FALSE, exited |-> FALSE, returncode |-> 0, sess |-> "u1",
              argv |-> <<>>]
NoUpdate == [sess |-> "u1", kind |-> "none", stop |-> FALSE, file_size |-> 0,
             returncode |-> 0, handler |-> "none",
             error |-> "", replies |-> <<>>, queued |-> FALSE]
AsmIdle == [pre |-> <<>>, post |-> <<>>, files |-> <<>>, called |-> FALSE,
            cmd |-> <<>>, out |-> NONE]

Handled(s, update, handler, error, replies) ==
    [sess |-> s,
     kind |-> IF update.text = NONE THEN "media" ELSE "text",
     stop |-> update = TextUpdate(T_stop),
     file_size |-> update.att.file_size,
     returncode |-> 0,
     handler |-> handler, error |-> error, replies |-> replies, queued |-> queued[s]]

Init ==
    /\ state = [s \in Sessions |-> END]
    /\ user_data = [s \in Sessions |-> EmptyDict]
    /\ disk = EmptyDict
    /\ process = NoProcess
    /\ queued = [s \in Sessions |-> FALSE]
    /\ last = NoUpdate
    /\ asm = AsmIdle

\* updates are handled one at a time, each to the end of its callback; an update
\* that arrived while ffmpeg ran is the next one of its user
Turn(s, update, handler) ==
    /\ ~process.on
    /\ queued[s] => update = TextUpdate(T_stop)
    /\ routing[state[s], update] = handler
    /\ queued' = [queued EXCEPT ![s] = FALSE]

----------------------------------------------------------------------------
(* Cleanup *)

\* delete_temp_files: appends output_path to the stored list, then iterates the
\* result of list.append, which is None: TypeError before any file is removed
delete_temp_files(d) ==
    LET media_group_file_names == get(d, MEDIAGROUP_FILE_NAMES_KEY, <<>>)
        output_path == get(d, OUTPUT_PATH_KEY, EMPTY_LIST)
    IN  [data |-> IF has(d, MEDIAGROUP_FILE_NAMES_KEY)
                  THEN put(d, MEDIAGROUP_FILE_NAMES_KEY,
                           Append(media_group_file_names, output_path))
                  ELSE d,
         removed |-> {},
         error |-> "TypeError"]

----------------------------------------------------------------------------
(* Callbacks *)

init_callback(s, update) ==
    /\ Turn(s, update, "init_callback")
    /\ user_data' = [user_data EXCEPT
                        ![s] = setdefault(@, MEDIAGROUP_FILE_NAMES_KEY, <<>>)]
    /\ state' = [state EXCEPT ![s] = DOCUMENT_SENDING]
    /\ last' = Handled(s, update, "init_callback", "", <<"send_files">>)
    /\ UNCHANGED <<disk, process, asm>>

\* the scratch path document_sending_callback gives an attachment
input_file_name(attachment) ==
    IF attachment.kind = "document" THEN TEMP_DOWNLOAD_PATH \o attachment.file_name
    ELSE IF attachment.kind = "video"
         THEN TEMP_DOWNLOAD_PATH \o attachment.file_unique_id \o <<".">>
                \o split_on(attachment.mime_type, "/")[2]
    ELSE TEMP_DOWNLOAD_PATH \o attachment.file_unique_id \o <<".", "j", "p", "g">>

\* transfer is how the two network calls end: "ok", "get_file" (attachment.get_file
\* raises) or "download" (file.download_to_drive raises)
document_sending_callback(s, update, transfer) ==
    /\ Turn(s, update, "document_sending_callback")
    /\ LET attachment == update.att
           name == input_file_name(attachment)
           d == user_data[s]
       IN  IF attachment.file_size = 0
           THEN /\ state' = [state EXCEPT ![s] = DOCUMENT_SENDING]
                /\ last' = Handled(s, update, "document_sending_callback", "",
                                   <<"size_zero">>)
                /\ UNCHANGED <<user_data, disk>>
           ELSE IF transfer = "get_file"
           THEN /\ last' = Handled(s, update, "document_sending_callback",
                                   "NetworkError", <<>>)
                /\ UNCHANGED <<state, user_data, disk>>
           ELSE IF ~has(d, MEDIAGROUP_FILE_NAMES_KEY)
           THEN /\ last' = Handled(s, update, "document_sending_callback",
                                   "KeyError", <<>>)
                /\ UNCHANGED <<state, user_data, disk>>
           ELSE /\ Len(d[MEDIAGROUP_FILE_NAMES_KEY]) < MaxFiles
                /\ user_data' = [user_data EXCEPT
                        ![s] = put(d, MEDIAGROUP_FILE_NAMES_KEY,
                                   Append(d[MEDIAGROUP_FILE_NAMES_KEY], name))]
                /\ IF transfer = "download"
                   THEN /\ last' = Handled(s, update, "document_sending_callback",
                                           "NetworkError", <<>>)
                        /\ UNCHANGED <<state, disk>>
                   ELSE /\ disk' = put(disk, resolve(name), attachment.file_size)
                        /\ state' = [state EXCEPT ![s] = COMMAND_WAITING]
                        /\ last' = Handled(s, update, "document_sending_callback",
                                           "", <<"send_more">>)
    /\ UNCHANGED <<process, asm>>

command_waiting_callback(s, update) ==
    /\ Turn(s, update, "command_waiting_callback")
    /\ IF ~has(user_data[s], MEDIAGROUP_FILE_NAMES_KEY)
       THEN /\ last' = Handled(s, update, "command_waiting_callback", "KeyError", <<>>)
            /\ UNCHANGED <<state, user_data>>
       ELSE IF update.text = T_pre
       THEN /\ state' = [state EXCEPT ![s] = PRE_INPUT_STATE]
            /\ last' = Handled(s, update, "command_waiting_callback", "", <<"ask_pre">>)
            /\ UNCHANGED user_data
       ELSE IF update.text = T_post
       THEN /\ state' = [state EXCEPT ![s] = POST_INPUT_STATE]
            /\ last' = Handled(s, update, "command_waiting_callback", "", <<"ask_post">>)
            /\ UNCHANGED user_data
       ELSE /\ user_data' = [user_data EXCEPT
                    ![s] = setdefault(setdefault(@, PRE_INPUT_PARTS_KEY, NONE_LIST),
                                      POST_INPUT_PARTS_KEY, NONE_LIST)]
            /\ state' = [state EXCEPT ![s] = COMMAND_WAITING]
            /\ last' = Handled(s, update, "command_waiting_callback", "",
                               <<"command_deleted">>)
    /\ UNCHANGED <<disk, process, asm>>

pre_input_command_callback(s, update) ==
    /\ Turn(s, update, "pre_input_command_callback")
    /\ IF ~has(user_data[s], MEDIAGROUP_FILE_NAMES_KEY)
       THEN /\ last' = Handled(s, update, "pre_input_command_callback", "KeyError", <<>>)
            /\ UNCHANGED <<state, user_data>>
       ELSE /\ user_data' = [user_data EXCEPT
                    ![s] = put(@, PRE_INPUT_PARTS_KEY, split(update.text))]
            /\ state' = [state EXCEPT ![s] = POST_INPUT_STATE]
            /\ last' = Handled(s, update, "pre_input_command_callback", "", <<"now_post">>)
    /\ UNCHANGED <<disk, process, asm>>

post_input_command_callback(s, update) ==
    /\ Turn(s, update, "post_input_command_callback")
    /\ LET d1 == put(user_data[s], POST_INPUT_PARTS_KEY, split(update.text))
           pre == get(d1, PRE_INPUT_PARTS_KEY, <<>>)
           post == d1[POST_INPUT_PARTS_KEY]
           err == IF ~has(d1, MEDIAGROUP_FILE_NAMES_KEY) THEN "KeyError"
                  ELSE parse_error(pre, post, d1[MEDIAGROUP_FILE_NAMES_KEY])
       IN  IF err # ""
           THEN /\ user_data' = [user_data EXCEPT ![s] = d1]
                /\ last' = Handled(s, update, "post_input_command_callback", err, <<>>)
                /\ UNCHANGED state
           ELSE LET r == parse_ffmpeg_command(pre, post, d1[MEDIAGROUP_FILE_NAMES_KEY])
                IN  /\ user_data' = [user_data EXCEPT
                            ![s] = put(put(d1, COMMAND_KEY, r.cmd), OUTPUT_PATH_KEY, r.out)]
                    /\ state' = [state EXCEPT ![s] = POST_INPUT_STATE]
                    /\ last' = Handled(s, update, "post_input_command_callback", "",
                                       <<"command_preview", "send_process">>)
    /\ UNCHANGED <<disk, process, asm>>

\* command_processing_callback up to "await process.communicate()": the subprocess
\* is created from the stored command
command_processing_callback(s, update) ==
    /\ Turn(s, update, "command_processing_callback")
    /\ IF ~has(user_data[s], COMMAND_KEY)
       THEN /\ last' = Handled(s, update, "command_processing_callback", "KeyError", <<>>)
            /\ UNCHANGED process
       ELSE /\ Len(get(user_data[s], MEDIAGROUP_FILE_NAMES_KEY, <<>>)) < MaxList
            /\ process' = [NoProcess EXCEPT !.on = TRUE, !.sess = s,
                                            !.argv = user_data[s][COMMAND_KEY]]
            /\ last' = Handled(s, update, "command_processing_callback", "", <<>>)
    /\ UNCHANGED <<state, user_data, disk, asm>>

\* what ffmpeg leaves on disk: nothing (written < 0), or a file of `written` bytes
\* at its last argument when that is not an option
ffmpeg_writes(files, argv, written) ==
    LET target == argv[Len(argv)] IN
    IF written >= 0 /\ target # <<>> /\ ~startswith(target, "-")
    THEN put(files, resolve(target), written)
    ELSE files

\* the reply with a file of exactly the relay limit refused
output_reply_strict(files, output_file) ==
    IF /\ output_file # NONE
       /\ output_file # <<>>
       /\ has(files, resolve(output_file))
       /\ files[resolve(output_file)] # 0
    THEN IF files[resolve(output_file)] >= RelayLimitBytes
         THEN "too_big" ELSE "output_document"
    ELSE "output_problem"

\* the reply command_processing_callback chooses for the output file
output_reply(files, output_file) ==
    IF /\ output_file # NONE
       /\ output_file # <<>>
       /\ has(files, resolve(output_file))
       /\ files[resolve(output_file)] # 0
    THEN IF files[resolve(output_file)] > RelayLimitBytes
         THEN "too_big" ELSE "output_document"
    ELSE "output_problem"

\* the exit statuses ffmpeg ends with: success, failure
ExitStatuses == {0, 1}

\* the ffmpeg subprocess ends: its output, if any, is on disk and its exit status
\* is set
ffmpeg_exits(s, written, returncode) ==
    /\ process.on /\ process.sess = s
    /\ ~process.exited
    /\ process' = [process EXCEPT !.exited = TRUE, !.returncode = returncode]
    /\ disk' = ffmpeg_writes(disk, process.argv, written)
    /\ last' = [NoUpdate EXCEPT !.sess = s, !.handler = "ffmpeg"]
    /\ UNCHANGED <<state, user_data, queued, asm>>

\* an exit status other than 0 raised as an error
exit_error_checked(returncode) ==
    IF returncode # 0 THEN "CalledProcessError" ELSE ""

\* the exception command_processing_callback raises for an exit status: none,
\* process.returncode is never read
exit_error(returncode) == ""

\* command_processing_callback from the return of process.communicate() on
command_processing_completion(s) ==
    /\ process.on /\ process.sess = s
    /\ process.exited
    /\ process' = NoProcess
    /\ LET d == user_data[s]
           done == [sess |-> s, kind |-> "text", stop |-> FALSE,
                    file_size |-> 0, returncode |-> process.returncode,
                    handler |-> "command_processing_callback",
                    error |-> "", replies |-> <<"ffmpeg_output">>, queued |-> FALSE]
       IN  IF exit_error(process.returncode) # ""
           THEN /\ last' = [done EXCEPT !.error = exit_error(process.returncode),
                                        !.replies = <<>>]
                /\ UNCHANGED <<state, user_data, disk>>
           ELSE IF ~has(d, OUTPUT_PATH_KEY)
           THEN /\ last' = [done EXCEPT !.error = "KeyError"]
                /\ UNCHANGED <<state, user_data, disk>>
           ELSE LET reply == output_reply(disk, d[OUTPUT_PATH_KEY])
                    disk2 == IF reply = "output_document"
                             THEN remove(disk, resolve(d[OUTPUT_PATH_KEY]))
                             ELSE disk
                    cleanup == delete_temp_files(d)
                IN  IF cleanup.error # ""
                    THEN /\ disk' = disk2
                         /\ user_data' = [user_data EXCEPT ![s] = cleanup.data]
                         /\ last' = [done EXCEPT !.error = cleanup.error,
                                                 !.replies = <<"ffmpeg_output", reply>>]
                         /\ UNCHANGED state
                    ELSE /\ disk' = [p \in (DOMAIN disk2) \ cleanup.removed |-> disk2[p]]
                         /\ user_data' = [user_data EXCEPT ![s] = EmptyDict]
                         /\ state' = [state EXCEPT ![s] = END]
                         /\ last' = [done EXCEPT !.replies = <<"ffmpeg_output", reply>>]
    /\ UNCHANGED <<queued, asm>>

\* a /stop sent while ffmpeg runs: it waits until the running callback returns
stop_arrives(s) ==
    /\ process.on /\ process.sess = s
    /\ ~queued[s]
    /\ queued' = [queued EXCEPT ![s] = TRUE]
    /\ last' = [NoUpdate EXCEPT !.sess = s, !.handler = "queued"]
    /\ UNCHANGED <<state, user_data, disk, process, asm>>

stop_callback(s, update) ==
    /\ Turn(s, update, "stop_callback")
    /\ Len(get(user_data[s], MEDIAGROUP_FILE_NAMES_KEY, <<>>)) < MaxList
    /\ LET cleanup == delete_temp_files(user_data[s])
       IN  IF cleanup.error # ""
           THEN /\ user_data' = [user_data EXCEPT ![s] = cleanup.data]
                /\ last' = Handled(s, update, "stop_callback", cleanup.error, <<>>)
                /\ UNCHANGED <<state, disk>>
           ELSE /\ disk' = [p \in (DOMAIN disk) \ cleanup.removed |-> disk[p]]
                /\ user_data' = [user_data EXCEPT ![s] = EmptyDict]
                /\ state' = [state EXCEPT ![s] = END]
                /\ last' = Handled(s, update, "stop_callback", "", <<"stopped">>)
    /\ UNCHANGED <<process, asm>>

other_messages_handler(s, update) ==
    /\ Turn(s, update, "other_messages_handler")
    /\ last' = Handled(s, update, "other_messages_handler", "", <<"use_init">>)
    /\ UNCHANGED <<state, user_data, disk, process, asm>>

\* an update no registered handler accepts is dropped
no_handler(s, update) ==
    /\ Turn(s, update, "none")
    /\ last' = Handled(s, update, "none", "", <<>>)
    /\ UNCHANGED <<state, user_data, disk, process, asm>>

Transfers == {"ok", "get_file", "download"}

\* one user; the exit status of ffmpeg, which no callback reads, varies in SpecRun
Next ==
    \E s \in {"u1"} :
        \/ \E u \in Updates : init_callback(s, u)
        \/ \E u \in Updates, t \in Transfers : document_sending_callback(s, u, t)
        \/ \E u \in Updates : command_waiting_callback(s, u)
        \/ \E u \in Updates : pre_input_command_callback(s, u)
        \/ \E u \in Updates : post_input_command_callback(s, u)
        \/ \E u \in Updates : command_processing_callback(s, u)
        \/ \E w \in OutputSizes \cup {-1} : ffmpeg_exits(s, w, 0)
        \/ command_processing_completion(s)
        \/ stop_arrives(s)
        \/ \E u \in Updates : stop_callback(s, u)
        \/ \E u \in Updates : other_messages_handler(s, u)
        \/ \E u \in Updates : no_handler(s, u)

Spec == Init /\ [][Next]_vars

\* two users, whose updates the application handles one after the other
NextMulti ==
    \E s \in Sessions :
        \/ \E u \in UpdatesMulti : init_callback(s, u)
        \/ \E u \in UpdatesMulti : document_sending_callback(s, u, "ok")
        \/ \E u \in UpdatesMulti : command_waiting_callback(s, u)
        \/ \E u \in UpdatesMulti : post_input_command_callback(s, u)
        \/ \E u \in UpdatesMulti : command_processing_callback(s, u)
        \/ \E w \in {-1, 1000} : ffmpeg_exits(s, w, 0)
        \/ command_processing_completion(s)
        \/ \E u \in UpdatesMulti : stop_callback(s, u)

SpecMulti == Init /\ [][NextMulti]_vars

\* one user who uploads, sends post-input fragments and runs the command: every
\* output size and exit status of ffmpeg
UpdatesRun == UpdatesMulti \cup {TextUpdate(T_opt), TextUpdate(T_up)}

NextRun ==
    \E s \in {"u1"} :
        \/ \E u \in UpdatesRun : init_callback(s, u)
        \/ \E u \in UpdatesRun : document_sending_callback(s, u, "ok")
        \/ \E u \in UpdatesRun : command_waiting_callback(s, u)
        \/ \E u \in UpdatesRun : post_input_command_callback(s, u)
        \/ \E u \in UpdatesRun : command_processing_callback(s, u)
        \/ \E w \in OutputSizes \cup {-1}, r \in ExitStatuses : ffmpeg_exits(s, w, r)
        \/ command_processing_completion(s)
        \/ stop_arrives(s)
        \/ \E u \in UpdatesRun : stop_callback(s, u)
        \/ \E u \in UpdatesRun : other_messages_handler(s, u)
        \/ \E u \in UpdatesRun : no_handler(s, u)

SpecRun == Init /\ [][NextRun]_vars

----------------------------------------------------------------------------
(* The assembler on its own: parse_ffmpeg_command applied to drawn arguments *)

\* tokens a split() can return: -y  o.mp4  "o.mp4"  -o.b  o  "  'o.mp4'
AsmTokens ==
    {<<"-", "y">>,
     <<"o", ".", "m", "p", "4">>,
     <<"\"", "o", ".", "m", "p", "4", "\"">>,
     <<"-", "o", ".", "b">>,
     <<"o">>,
     <<"\"">>,
     <<"'", "o", ".", "m", "p", "4", "'">>}

\* scratch paths of uploads: a.jpg and a".jpg
AsmInputs ==
    {TEMP_DOWNLOAD_PATH \o <<"a", ".", "j", "p", "g">>,
     TEMP_DOWNLOAD_PATH \o <<"a", "\"", ".", "j", "p", "g">>}

SeqsOf(S, lo, hi) == UNION {[1..n -> S] : n \in lo..hi}

InitAsm ==
    /\ state = [s \in Sessions |-> END]
    /\ user_data = [s \in Sessions |-> EmptyDict]
    /\ disk = EmptyDict
    /\ process = NoProcess
    /\ queued = [s \in Sessions |-> FALSE]
    /\ last = NoUpdate
    /\ \E p \in SeqsOf(AsmTokens, 0, MaxPre), q \in SeqsOf(AsmTokens, 1, MaxPost),
          f \in SeqsOf(AsmInputs, 1, MaxInputs) :
            asm = [AsmIdle EXCEPT !.pre = p, !.post = q, !.files = f]

assemble ==
    /\ ~asm.called
    /\ LET r == parse_ffmpeg_command(asm.pre, asm.post, asm.files)
       IN  asm' = [asm EXCEPT !.called = TRUE, !.cmd = r.cmd, !.out = r.out]
    /\ UNCHANGED <<state, user_data, disk, process, queued, last>>

NextAsm == assemble

SpecAsm == InitAsm /\ [][NextAsm]_vars

----------------------------------------------------------------------------
(* Vocabulary of the properties *)

\* the paths a session record holds: the strings of its file list, its output path
SessionPaths(d) ==
    ({get(d, MEDIAGROUP_FILE_NAMES_KEY, <<>>)[i] :
        i \in DOMAIN get(d, MEDIAGROUP_FILE_NAMES_KEY, <<>>)}
        \cup {get(d, OUTPUT_PATH_KEY, NONE)})
    \ {NONE, EMPTY_LIST}

OnDisk(files, path) == resolve(path) \in DOMAIN files

\* a path names a file below the scratch directory
InsideScratch(path) ==
    LET root == resolve(TEMP_DOWNLOAD_PATH)
        file == resolve(path)
    IN  Len(file) > Len(root) /\ SubSeq(file, 1, Len(root)) = root

\* the step just taken ran callback h to its end
Ran(h) == last'.handler = h /\ ~process'.on

\* a fragment list as the assembler is meant to see it: absent or None is empty
FragmentsOrEmpty(d, key) ==
    IF has(d, key) /\ d[key] # NONE_LIST THEN d[key] ELSE <<>>

\* every stored command, and the argument list of a running ffmpeg, is what
\* parse_ffmpeg_command returns for the fragments and files stored with it
Derived(data, proc) ==
    \A s \in Sessions :
        LET d == data[s]
            files == get(d, MEDIAGROUP_FILE_NAMES_KEY, <<>>)
            now == parse_ffmpeg_command(FragmentsOrEmpty(d, PRE_INPUT_PARTS_KEY),
                                        FragmentsOrEmpty(d, POST_INPUT_PARTS_KEY),
                                        files)
        IN  has(d, COMMAND_KEY) =>
                /\ \A i \in DOMAIN files : files[i] \notin {NONE, EMPTY_LIST}
                /\ d[COMMAND_KEY] = now.cmd
                /\ get(d, OUTPUT_PATH_KEY, NONE) = now.out
                /\ (proc.on /\ proc.sess = s) => proc.argv = now.cmd

\* the callbacks that end with delete_temp_files
CleanupCallbacks == {"stop_callback", "command_processing_callback"}

\* the argument the assembler is meant to put at position i, quotes removed
ExpectedArg(a, i) ==
    LET np == Len(a.pre)
        nf == Len(a.files)
    IN  IF i = 1 THEN <<"f", "f", "m", "p", "e", "g">>
        ELSE IF i <= 1 + np THEN strip_quotes(a.pre[i - 1])
        ELSE IF i <= 1 + np + 2 * nf
             THEN IF (i - 1 - np) % 2 = 1 THEN <<"-", "i">>
                  ELSE strip_quotes(a.files[(i - 1 - np) \div 2])
        ELSE strip_quotes(a.post[i - 1 - np - 2 * nf])

\* the same position with every fragment and path taken verbatim
VerbatimArg(a, i) ==
    LET np == Len(a.pre)
        nf == Len(a.files)
    IN  IF i = 1 THEN <<"f", "f", "m", "p", "e", "g">>
        ELSE IF i <= 1 + np THEN a.pre[i - 1]
        ELSE IF i <= 1 + np + 2 * nf
             THEN IF (i - 1 - np) % 2 = 1 THEN <<"-", "i">>
                  ELSE a.files[(i - 1 - np) \div 2]
        ELSE a.post[i - 1 - np - 2 * nf]

ExpectedLen(a) == 1 + Len(a.pre) + 2 * Len(a.files) + Len(a.post)

AsmNonEmpty == asm.called /\ asm.pre # <<>> /\ asm.files # <<>> /\ asm.post # <<>>

----------------------------------------------------------------------------
(* Properties *)

\* C1: whenever /stop is handled by stop_callback in a non-terminal state, the
\* callback completes: every path of the session's file list and its output path
\* is gone from disk, the session record is empty and the conversation has ended.
C1_StopCleansAndEnds ==
    [][(Ran("stop_callback") /\ state[last'.sess] # END) =>
         LET s == last'.sess IN
         /\ last'.error = ""
         /\ state'[s] = END
         /\ user_data'[s] = EmptyDict
         /\ \A p \in SessionPaths(user_data[s]) : ~OnDisk(disk', p)]_vars

\* C2: every ffmpeg run started by /process ends with the conversation ended, the
\* session record empty and every path of the file list and the output path gone
\* from disk, whatever became of the output file (relayed, unusable, too big).
C2_ProcessCleansAndEnds ==
    [][(process.on /\ Ran("command_processing_callback")) =>
         LET s == last'.sess IN
         /\ state'[s] = END
         /\ user_data'[s] = EmptyDict
         /\ \A p \in SessionPaths(user_data[s]) : ~OnDisk(disk', p)]_vars

\* C3: in every non-terminal state a /stop command is handled by stop_callback,
\* never by another handler of the state and never dropped.
C3_StopAlwaysDispatched ==
    [][(/\ last'.handler # "queued"
        /\ last'.stop
        /\ state[last'.sess] # END)
       => last'.handler = "stop_callback"]_vars

\* C4: a stored command always equals what the assembler returns for the
\* fragments and input files the session holds now, and so does the argument list
\* of a running ffmpeg: no step other than a cleanup (which C1 and C2 cover) leads
\* from a state where this holds to one where it does not.
C4_CommandIsDerived ==
    [][(Derived(user_data, process) /\ last'.handler \notin CleanupCallbacks)
       => Derived(user_data', process')]_vars

\* C5: a /stop that arrived while ffmpeg ran leads to full cleanup once handled:
\* ffmpeg is no longer running, and no input file or output file of the session
\* is left on disk, also when ffmpeg had written its output.
C5_StopWhileExecutingCleans ==
    [][(last'.handler = "stop_callback" /\ last'.queued) =>
         LET s == last'.sess IN
         /\ ~process'.on
         /\ state'[s] = END
         /\ \A p \in SessionPaths(user_data[s]) : ~OnDisk(disk', p)]_vars

\* C6: two users never hold the same path: no path of one session's file list or
\* output path is a path of another session.
C6_PathsPerSession ==
    \A s1, s2 \in Sessions :
        s1 # s2 => SessionPaths(user_data[s1]) \cap SessionPaths(user_data[s2]) = {}

\* C7: every path of a session's file list and its output path names a file
\* inside the scratch directory.
C7_PathsInsideScratch ==
    \A s \in Sessions : \A p \in SessionPaths(user_data[s]) : InsideScratch(p)

\* C8: an attachment of declared size zero, received in a state that collects
\* attachments, is rejected without effect: the state stays what it was, the error
\* reply is sent, the session record and the disk are unchanged.
C8_ZeroSizeRejectedInPlace ==
    [][(/\ last'.handler # "queued"
        /\ last'.kind = "media"
        /\ last'.file_size = 0
        /\ state[last'.sess] \in {DOCUMENT_SENDING, COMMAND_WAITING})
       => /\ last'.replies = <<"size_zero">>
          /\ state' = state
          /\ user_data' = user_data
          /\ disk' = disk]_vars

\* C9 as stated: the arguments are the program name, the pre-fragments, '-i' and
\* the path for each input in order, then the post-fragments, each as supplied.
C9_ArgvVerbatim ==
    AsmNonEmpty =>
        /\ Len(asm.cmd) = ExpectedLen(asm)
        /\ \A i \in 1..Len(asm.cmd) : asm.cmd[i] = VerbatimArg(asm, i)

\* C9 (amended): for non-empty pre-fragments, post-fragments and inputs, the
\* arguments are the program name, the pre-fragments in order, '-i' and the path
\* for each input in upload order, then the post-fragments in order, every one
\* with its double quotes removed; the last argument is prefixed with the scratch
\* directory when an output path is returned.
C9_ArgvLayout ==
    AsmNonEmpty =>
        LET n == Len(asm.cmd) IN
        /\ n = ExpectedLen(asm)
        /\ \A i \in 1..(n - 1) : asm.cmd[i] = ExpectedArg(asm, i)
        /\ asm.cmd[n] = IF asm.out # NONE
                        THEN TEMP_DOWNLOAD_PATH \o ExpectedArg(asm, n)
                        ELSE ExpectedArg(asm, n)

\* a call with a quoted pre-fragment, two inputs and a rewritten last argument
C9_Witness ==
    /\ AsmNonEmpty
    /\ Len(asm.files) = 2
    /\ asm.out # NONE
    /\ \E i \in DOMAIN asm.pre : contains(asm.pre[i], "\"")

\* C10: an output path is returned exactly when the last argument as built is
\* non-empty, does not start with '-' and contains '.'; it is then the scratch
\* prefix followed by that argument and takes its place, no other argument
\* changes; otherwise no output path is returned and the arguments stay as built.
C10_OutputInference ==
    asm.called =>
        LET n == Len(asm.cmd)
            built == ExpectedArg(asm, ExpectedLen(asm))
            qualifies == /\ built # <<>>
                         /\ built[1] # "-"
                         /\ \E i \in DOMAIN built : built[i] = "."
        IN  /\ n = ExpectedLen(asm)
            /\ (asm.out # NONE) <=> qualifies
            /\ asm.out # NONE => asm.out = TEMP_DOWNLOAD_PATH \o built /\ asm.cmd[n] = asm.out
            /\ asm.out = NONE => asm.cmd[n] = built
            /\ \A i \in 1..(n - 1) : asm.cmd[i] = ExpectedArg(asm, i)

\* a call whose last fragment is a quoted file name: the path is returned
C10_Witness ==
    /\ asm.called
    /\ asm.out # NONE
    /\ contains(asm.post[Len(asm.post)], "\"")

\* the characters of every argument of the assembled command
ArgvChars(cmd) == UNION {{cmd[i][j] : j \in DOMAIN cmd[i]} : i \in DOMAIN cmd}

\* C11 as stated: no argument of the assembled command contains a quote
\* character, double or single, whatever the fragments and file names held.
C11_NoQuoteInArgv ==
    asm.called => ArgvChars(asm.cmd) \cap {"\"", "'"} = {}

\* C11 (amended): no argument of the assembled command contains a double quote,
\* whatever the fragments and file names held; single quotes are kept as typed.
C11_NoDoubleQuoteInArgv ==
    asm.called => "\"" \notin ArgvChars(asm.cmd)

\* a call whose fragments and input names both held double quotes
C11_Witness ==
    /\ asm.called
    /\ \E i \in DOMAIN asm.post : contains(asm.post[i], "\"")
    /\ \E i \in DOMAIN asm.files : contains(asm.files[i], "\"")
    /\ \E i \in DOMAIN asm.pre : contains(asm.pre[i], "'")

\* the step just taken is command_processing_callback resuming after ffmpeg ended
Completes == process.exited /\ Ran("command_processing_callback")

\* the output path names a file on disk that is not empty
Usable(files, out) == out # NONE /\ OnDisk(files, out) /\ files[resolve(out)] # 0

\* C12 as stated: after ffmpeg ends exactly one of three things happens: the
\* output file is relayed and then deleted exactly when the output path is
\* present, the file exists, is not empty and is smaller than the relay limit; the
\* size-limit message is sent exactly when the file exists, is not empty and is
\* not smaller than the limit; otherwise the 'no usable output' message is sent.
C12_RelayBelowLimit ==
    [][Completes =>
         LET out == get(user_data[last'.sess], OUTPUT_PATH_KEY, NONE)
             usable == Usable(disk, out)
         IN  /\ Len(last'.replies) = 2
             /\ last'.replies[2] = "output_document"
                    <=> (usable /\ disk[resolve(out)] < RelayLimitBytes)
             /\ last'.replies[2] = "output_document" => ~OnDisk(disk', out)
             /\ last'.replies[2] = "too_big"
                    <=> (usable /\ disk[resolve(out)] >= RelayLimitBytes)
             /\ last'.replies[2] = "output_problem" <=> ~usable]_vars

\* C12 (amended): after ffmpeg ends exactly one of three things happens: the
\* output file is relayed and then deleted exactly when the output path is
\* present, the file exists, is not empty and is not larger than the relay limit;
\* the size-limit message is sent exactly when the file exists, is not empty and
\* is larger than the limit; otherwise the 'no usable output' message is sent.
C12_RelayUpToLimit ==
    [][Completes =>
         LET out == get(user_data[last'.sess], OUTPUT_PATH_KEY, NONE)
             usable == Usable(disk, out)
         IN  /\ Len(last'.replies) = 2
             /\ last'.replies[2] = "output_document"
                    <=> (usable /\ disk[resolve(out)] <= RelayLimitBytes)
             /\ last'.replies[2] = "output_document" => ~OnDisk(disk', out)
             /\ last'.replies[2] = "too_big"
                    <=> (usable /\ disk[resolve(out)] > RelayLimitBytes)
             /\ last'.replies[2] = "output_problem" <=> ~usable]_vars

\* ffmpeg has ended and its output file was relayed and deleted
C12_Witness ==
    /\ last.handler = "command_processing_callback"
    /\ last.replies = <<"ffmpeg_output", "output_document">>
    /\ has(user_data[last.sess], OUTPUT_PATH_KEY)
    /\ user_data[last.sess][OUTPUT_PATH_KEY] # NONE
    /\ ~OnDisk(disk, user_data[last.sess][OUTPUT_PATH_KEY])

\* what becomes of the output file, decided by the file alone
FileOutcome(files, out) ==
    IF Usable(files, out)
    THEN IF files[resolve(out)] > RelayLimitBytes THEN "too_big" ELSE "output_document"
    ELSE "output_problem"

\* C13: a non-zero exit status of ffmpeg is not fatal: the captured diagnostic
\* output is relayed first, then the output file is decided on as it is for exit
\* status zero, by the file alone, and the cleanup is entered: the only error the
\* callback can end with is the cleanup's own.
C13_ExitStatusNotFatal ==
    [][(Completes /\ process.returncode # 0) =>
         LET d == user_data[last'.sess]
             out == get(d, OUTPUT_PATH_KEY, NONE)
         IN  /\ Len(last'.replies) = 2
             /\ last'.replies[1] = "ffmpeg_output"
             /\ last'.replies[2] = FileOutcome(disk, out)
             /\ last'.replies[2] = "output_document" => ~OnDisk(disk', out)
             /\ last'.error = delete_temp_files(d).error]_vars

\* ffmpeg ended with exit status 1 and its output file was decided on
C13_Witness ==
    /\ last.handler = "command_processing_callback"
    /\ last.returncode = 1
    /\ Len(last.replies) = 2
    /\ last.replies[1] = "ffmpeg_output"

\* C14: /process starts ffmpeg only when a non-empty command is stored; when no
\* command is stored (no post-input fragment was supplied yet) it is refused
\* without an internal error: nothing is launched, and the state, the session
\* record and the disk stay as they were.
C14_ProcessNeedsCommand ==
    [][(last'.handler = "command_processing_callback" /\ ~process.on) =>
         LET d == user_data[last'.sess] IN
         /\ process'.on => (has(d, COMMAND_KEY) /\ d[COMMAND_KEY] # <<>>)
         /\ ~has(d, COMMAND_KEY) =>
               /\ last'.error = ""
               /\ ~process'.on
               /\ state' = state
               /\ user_data' = user_data
               /\ disk' = disk]_vars

\* the scratch paths the uploads of any attachment can produce
UploadPaths ==
    {input_file_name(u.att) : u \in {v \in Updates \cup UpdatesMulti : v.text = NONE}}

\* the states past the collection of input files; ffmpeg runs in POST_INPUT_STATE
PastCollection == {COMMAND_WAITING, PRE_INPUT_STATE, POST_INPUT_STATE}

\* C15: in every state past collection the file list is not empty and lists the
\* accepted attachments: every element is the scratch path of an uploaded
\* attachment.
C15_FilesAreUploads ==
    \A s \in Sessions :
        state[s] \in PastCollection =>
            LET files == get(user_data[s], MEDIAGROUP_FILE_NAMES_KEY, <<>>)
            IN  /\ files # <<>>
                /\ \A i \in DOMAIN files : files[i] \in UploadPaths

\* the step just taken handled an update that no handler of the conversation
\* accepts in the session's state
Unexpected ==
    /\ last'.kind # "none"
    /\ last'.handler \in {"other_messages_handler", "none"}

\* C16: an update the session's non-terminal state has no transition for (an
\* attachment while post-input fragments are awaited, plain text while files are
\* collected) raises no error, is answered with a guidance reply and leaves the
\* state, the session record and the disk unchanged.
C16_UnexpectedIsAnswered ==
    [][(Unexpected /\ state[last'.sess] # END) =>
         /\ last'.error = ""
         /\ last'.replies # <<>>
         /\ state' = state
         /\ user_data' = user_data
         /\ disk' = disk]_vars

\* the file list of a session record holds paths only
OnlyPaths(d) ==
    \A i \in DOMAIN get(d, MEDIAGROUP_FILE_NAMES_KEY, <<>>) :
        get(d, MEDIAGROUP_FILE_NAMES_KEY, <<>>)[i] \notin {NONE, EMPTY_LIST}

\* C17: text sent while post-input fragments are awaited always succeeds, whatever
\* came before (no pre-input fragments ever supplied, a /reset), here for a file
\* list that holds paths only: the post-input fragments are stored, the command and
\* the output path are recomputed with absent pre-input fragments taken as empty,
\* the command is shown and the state stays POST_INPUT_STATE.
C17_PostTextSucceeds ==
    [][(last'.handler = "post_input_command_callback" /\ OnlyPaths(user_data[last'.sess])) =>
         LET s == last'.sess
             d == user_data'[s]
             now == parse_ffmpeg_command(FragmentsOrEmpty(d, PRE_INPUT_PARTS_KEY),
                                         FragmentsOrEmpty(d, POST_INPUT_PARTS_KEY),
                                         get(d, MEDIAGROUP_FILE_NAMES_KEY, <<>>))
         IN  /\ last'.error = ""
             /\ last'.replies = <<"command_preview", "send_process">>
             /\ state'[s] = POST_INPUT_STATE
             /\ has(d, POST_INPUT_PARTS_KEY)
             /\ get(d, COMMAND_KEY, NONE) = now.cmd
             /\ get(d, OUTPUT_PATH_KEY, <<>>) = now.out]_vars

\* the step just taken started ffmpeg
Launches == process'.on /\ ~process.on

\* C18: after a /reset, answered 'Command deleted', the fragments and the command
\* stored before it are no longer in effect: a /process that comes before any new
\* fragment, that is right after the /post (or /pre) that leaves COMMAND_WAITING,
\* where only a /reset brings a session that has a command, starts no ffmpeg.
C18_ResetForgetsCommand ==
    [][~(Launches /\ last.handler = "command_waiting_callback")]_vars

\* the file list of a session record
InputFiles(d) == get(d, MEDIAGROUP_FILE_NAMES_KEY, <<>>)

\* C19: the file list changes only when an attachment is accepted, by one scratch
\* path of an upload of this session added at its end, or when the session record
\* is emptied; the cleanup run by /stop and /process never adds an element.
C19_FilesChangeByUploadOnly ==
    [][\A s \in Sessions :
         LET old == InputFiles(user_data[s])
             new == InputFiles(user_data'[s])
         IN  new # old =>
                \/ new = <<>>
                \/ /\ last'.handler = "document_sending_callback"
                   /\ last'.sess = s
                   /\ Len(new) = Len(old) + 1
                   /\ SubSeq(new, 1, Len(old)) = old
                   /\ new[Len(new)] \in UploadPaths]_vars

\* C20: the path of an attachment enters the file list only if its download
\* succeeded: when fetching or downloading the attachment fails, the session
\* record and the state are left as they were.
C20_FailedTransferChangesNothing ==
    [][(/\ last'.handler = "document_sending_callback"
        /\ last'.error = "NetworkError")
       => /\ user_data' = user_data
          /\ state' = state]_vars

====
